---- MODULE Spec2Model ----
(***************************************************************************)
(* Model of the data-access layer of dev-events: the Event pre-save hook   *)
(* (slug generation, date and time normalization), the Booking hooks       *)
(* (event existence guard on save / findOneAndUpdate / updateOne, email    *)
(* setters) and the unique indexes of both collections.                    *)
(*                                                                         *)
(* Strings are sequences of one-character strings, so that the regular     *)
(* expressions, trim, toLowerCase, split and padStart of the source are    *)
(* computed character by character.                                        *)
(***************************************************************************)
EXTENDS Integers, Sequences, FiniteSets, TLC

VARIABLES events, nextEventId, bookings, nextBookingId, pc, call,
          cached, attempts, conn

\* the collections and the operations on them
dataVars == <<events, nextEventId, bookings, nextBookingId, pc, call>>

\* the connection cache, the connection attempts and the callers of connectDB
connVars == <<cached, attempts, conn>>

vars == <<events, nextEventId, bookings, nextBookingId, pc, call, cached, attempts, conn>>

(***************************************************************************)
(* Bounds of the model.                                                    *)
(***************************************************************************)
NumProcs == 2
MaxEvents == 2
MaxBookings == 2
MaxBookingEvents == 1
MaxSeqEvents == 2
MaxSlugEvents == 2
MaxTimeEvents == 1
MaxDateEvents == 1
NumCallers == 3
MaxAttempts == 3

Procs == 1..NumProcs
Callers == 1..NumCallers

(***************************************************************************)
(* Characters and strings.                                                 *)
(***************************************************************************)
UpperChars == <<"A","B","C","D","E","F","G","H","I","J","K","L","M",
                "N","O","P","Q","R","S","T","U","V","W","X","Y","Z">>
LowerChars == <<"a","b","c","d","e","f","g","h","i","j","k","l","m",
                "n","o","p","q","r","s","t","u","v","w","x","y","z">>
DigitChars == <<"0","1","2","3","4","5","6","7","8","9">>

Range(s) == {s[i] : i \in DOMAIN s}

IsDigit(c) == c \in Range(DigitChars)
\* \w of a JavaScript regular expression: [A-Za-z0-9_]
IsWordChar(c) == c \in Range(UpperChars) \cup Range(LowerChars) \cup Range(DigitChars) \cup {"_"}
\* \s of a JavaScript regular expression, and the characters trim() strips
IsSpace(c) == c \in {" ", "\t", "\n"}

DigitVal(c) == (CHOOSE i \in DOMAIN DigitChars : DigitChars[i] = c) - 1

LowerChar(c) ==
    IF c \in Range(UpperChars)
    THEN LowerChars[CHOOSE i \in DOMAIN UpperChars : UpperChars[i] = c]
    ELSE c

\* String.prototype.toLowerCase
ToLowerCase(s) == [i \in DOMAIN s |-> LowerChar(s[i])]

RECURSIVE TrimStart(_)
TrimStart(s) == IF s # <<>> /\ IsSpace(Head(s)) THEN TrimStart(Tail(s)) ELSE s

RECURSIVE TrimEnd(_)
TrimEnd(s) ==
    IF s # <<>> /\ IsSpace(s[Len(s)]) THEN TrimEnd(SubSeq(s, 1, Len(s) - 1)) ELSE s

\* String.prototype.trim
Trim(s) == TrimEnd(TrimStart(s))

\* String(n) for a non-negative integer
RECURSIVE DecStr(_)
DecStr(n) == IF n < 10 THEN <<DigitChars[n + 1]>> ELSE DecStr(n \div 10) \o <<DigitChars[(n % 10) + 1]>>

\* parseInt(s, 10) on a string of decimal digits
RECURSIVE ParseInt(_)
ParseInt(s) ==
    IF s = <<>> THEN 0 ELSE 10 * ParseInt(SubSeq(s, 1, Len(s) - 1)) + DigitVal(s[Len(s)])

\* String.prototype.padStart(n, "0")
RECURSIVE PadStart(_, _)
PadStart(s, n) == IF Len(s) >= n THEN s ELSE PadStart(<<"0">> \o s, n)

\* String.prototype.split(sep) for a one-character separator
RECURSIVE Split(_, _)
Split(s, sep) ==
    IF \E i \in DOMAIN s : s[i] = sep
    THEN LET i == CHOOSE k \in DOMAIN s : s[k] = sep /\ \A j \in 1..(k - 1) : s[j] # sep
         IN <<SubSeq(s, 1, i - 1)>> \o Split(SubSeq(s, i + 1, Len(s)), sep)
    ELSE <<s>>

(***************************************************************************)
(* Slug generation (Event pre-save hook).                                  *)
(***************************************************************************)
\* .replace(/[^\w\s-]/g, "")
RemoveSpecial(s) == SelectSeq(s, LAMBDA c : IsWordChar(c) \/ IsSpace(c) \/ c = "-")

\* .replace(/\s+/g, "-")
RECURSIVE SpacesToHyphen(_)
SpacesToHyphen(s) ==
    IF s = <<>> THEN <<>>
    ELSE IF IsSpace(Head(s))
         THEN <<"-">> \o SpacesToHyphen(TrimStart(s))
         ELSE <<Head(s)>> \o SpacesToHyphen(Tail(s))

\* .replace(/-+/g, "-")
RECURSIVE CollapseHyphens(_)
CollapseHyphens(s) ==
    IF s = <<>> THEN <<>>
    ELSE IF Head(s) = "-" /\ Len(s) > 1 /\ s[2] = "-"
         THEN CollapseHyphens(Tail(s))
         ELSE <<Head(s)>> \o CollapseHyphens(Tail(s))

BaseSlug(title) == CollapseHyphens(SpacesToHyphen(RemoveSpecial(Trim(ToLowerCase(title)))))

\* a candidate without the counter
CandidateWithoutCounter(baseSlug, counter) == baseSlug

\* the suffix taken after the increment of the counter
CandidateOffByOne(baseSlug, counter) == baseSlug \o <<"-">> \o DecStr(counter + 1)

\* `${baseSlug}-${counter}`
Candidate(baseSlug, counter) == baseSlug \o <<"-">> \o DecStr(counter)

\* schema setters of the slug field: lowercase, trim
SlugSetter(s) == Trim(ToLowerCase(s))

\* schema setter of the title field: trim
TitleSetter(s) == Trim(s)

(***************************************************************************)
(* Date normalization (Event pre-save hook).                               *)
(***************************************************************************)
\* /^\d{4}-\d{2}-\d{2}$/
DateRegex(s) ==
    /\ Len(s) = 10
    /\ \A i \in {1, 2, 3, 4, 6, 7, 9, 10} : IsDigit(s[i])
    /\ s[5] = "-"
    /\ s[8] = "-"

IsLeap(y) == (y % 4 = 0 /\ y % 100 # 0) \/ y % 400 = 0

\* days of month index mi (0 = January) of year y
DaysIn(y, mi) ==
    IF mi = 1 THEN (IF IsLeap(y) THEN 29 ELSE 28)
    ELSE IF mi \in {3, 5, 8, 10} THEN 30 ELSE 31

\* new Date(year, monthIndex, day): out-of-range components roll over into
\* the neighbouring months and years, and a year 0..99 means 1900 + year.
RECURSIVE RollDate(_, _, _)
RollDate(y, mi, d) ==
    IF mi < 0 THEN RollDate(y - 1, mi + 12, d)
    ELSE IF mi > 11 THEN RollDate(y + 1, mi - 12, d)
    ELSE IF d < 1 THEN
        (IF mi = 0 THEN RollDate(y - 1, 11, d + 31)
         ELSE RollDate(y, mi - 1, d + DaysIn(y, mi - 1)))
    ELSE IF d > DaysIn(y, mi) THEN RollDate(y, mi + 1, d - DaysIn(y, mi))
    ELSE [year |-> y, month |-> mi, date |-> d]

NewDate(year, monthIndex, day) ==
    RollDate(IF year \in 0..99 THEN 1900 + year ELSE year, monthIndex, day)

\* the date block without the comparison of the constructed date's components
NormalizeDateNoCalendarCheck(raw) ==
    IF ~DateRegex(raw) THEN [ok |-> FALSE, err |-> "DateFormat", value |-> raw]
    ELSE LET parts == Split(raw, "-")
         IN [ok |-> TRUE, err |-> "none",
             value |-> DecStr(ParseInt(parts[1])) \o <<"-">>
                       \o PadStart(DecStr(ParseInt(parts[2])), 2) \o <<"-">>
                       \o PadStart(DecStr(ParseInt(parts[3])), 2)]

\* the date block of the hook: the value stored in this.date, or the error thrown
NormalizeDate(raw) ==
    IF ~DateRegex(raw) THEN [ok |-> FALSE, err |-> "DateFormat", value |-> raw]
    ELSE LET parts == Split(raw, "-")
             year == ParseInt(parts[1])
             month == ParseInt(parts[2])
             day == ParseInt(parts[3])
             localDate == NewDate(year, month - 1, day)
         IN IF \/ localDate.year # year
               \/ localDate.month # month - 1
               \/ localDate.date # day
            THEN [ok |-> FALSE, err |-> "DateInvalid", value |-> raw]
            ELSE [ok |-> TRUE, err |-> "none",
                  value |-> DecStr(year) \o <<"-">> \o PadStart(DecStr(month), 2)
                            \o <<"-">> \o PadStart(DecStr(day), 2)]

(***************************************************************************)
(* Time normalization (Event pre-save hook).                               *)
(***************************************************************************)
\* /^([0-1]?[0-9]|2[0-3]):[0-5][0-9]$/
TimeRegex(s) ==
    \E k \in 1..Len(s) :
        /\ s[k] = ":"
        /\ Len(s) = k + 2
        /\ s[k + 1] \in {"0", "1", "2", "3", "4", "5"}
        /\ IsDigit(s[k + 2])
        /\ LET h == SubSeq(s, 1, k - 1)
           IN \/ Len(h) = 1 /\ IsDigit(h[1])
              \/ Len(h) = 2 /\ h[1] \in {"0", "1"} /\ IsDigit(h[2])
              \/ Len(h) = 2 /\ h[1] = "2" /\ h[2] \in {"0", "1", "2", "3"}

\* the time block without the padding of its last line
NormalizeTimeNoPad(raw) ==
    IF ~TimeRegex(raw) THEN [ok |-> FALSE, err |-> "TimeFormat", value |-> raw]
    ELSE [ok |-> TRUE, err |-> "none", value |-> raw]

\* the time block of the hook: the value stored in this.time, or the error thrown
NormalizeTime(raw) ==
    IF ~TimeRegex(raw) THEN [ok |-> FALSE, err |-> "TimeFormat", value |-> raw]
    ELSE LET parts == Split(raw, ":")
         IN [ok |-> TRUE, err |-> "none",
             value |-> PadStart(parts[1], 2) \o <<":">> \o PadStart(parts[2], 2)]

(***************************************************************************)
(* State.  events and bookings are the two collections, as functions from  *)
(* the _id of each stored document to its fields.  nextEventId and         *)
(* nextBookingId are the next fresh _id (ObjectIds are generated by the    *)
(* client when a document is constructed and are never reused).  pc and    *)
(* call are the position and the local state of each caller's operation in *)
(* flight: every await of a database operation is a scheduling point.      *)
(***************************************************************************)
\* null
Null == 0

\* a caller that is not inside connectDB
IdleCaller == [pc |-> "idle", awaits |-> Null, early |-> FALSE, result |-> Null]

NoErr == [kind |-> "none", id |-> 0]
Err(kind, id) == [kind |-> kind, id |-> id]

NoLoop == [baseSlug |-> <<>>, slug |-> <<>>, counter |-> 0, lookups |-> 0]
NoQuery == [filter |-> <<>>, update |-> <<>>, runValidators |-> FALSE,
            runSettersOnQuery |-> FALSE, found |-> FALSE]

IdleCall == [op |-> "none", id |-> 0, isNew |-> FALSE, doc |-> <<>>, mod |-> {},
             loop |-> NoLoop, q |-> NoQuery, err |-> NoErr]

Init ==
    /\ events = <<>>
    /\ nextEventId = 1
    /\ bookings = <<>>
    /\ nextBookingId = 1
    /\ pc = [p \in Procs |-> "idle"]
    /\ call = [p \in Procs |-> IdleCall]
    /\ cached = [conn |-> Null, promise |-> Null]
    /\ attempts = <<>>
    /\ conn = [c \in Callers |-> IdleCaller]

Free(p) == pc[p] \in {"idle", "done"}

\* what is kept of a finished operation: which operation it was and the error
\* it threw, if any; of a save of a loaded Event and of a filter-based update,
\* also the document it wrote or matched and the paths it set
Outcome(c) ==
    IF c.isNew \/ c.op = "bookingSave" THEN [IdleCall EXCEPT !.op = c.op, !.err = c.err]
    ELSE [IdleCall EXCEPT !.op = c.op, !.id = c.id, !.mod = c.mod, !.err = c.err]

Finish(p, c) ==
    /\ pc' = [pc EXCEPT ![p] = "done"]
    /\ call' = [call EXCEPT ![p] = Outcome(c)]
    /\ UNCHANGED connVars

Goto(p, label, c) ==
    /\ pc' = [pc EXCEPT ![p] = label]
    /\ call' = [call EXCEPT ![p] = c]
    /\ UNCHANGED connVars

(***************************************************************************)
(* Event: schema validation, pre-save hook, unique index on slug.          *)
(***************************************************************************)
\* required: [true, ...] on title, date, time (a required string is non-empty)
EventValid(c) == \A f \in {"title", "date", "time"} : f \in c.mod => c.doc[f] # <<>>

\* models.Event.findOne({ slug, _id: { $ne: this._id } })
FindOneBySlug(slug, id) ==
    \E e \in DOMAIN events : e # id /\ events[e].slug = slug

\* isModified(field) of the document being saved
IsModified(c, field) == field \in c.mod

\* the time block of the hook
TimeBlock(c) ==
    IF ~IsModified(c, "time") THEN c
    ELSE LET r == NormalizeTime(c.doc.time)
         IN IF r.ok THEN [c EXCEPT !.doc.time = r.value]
            ELSE [c EXCEPT !.err = Err(r.err, 0)]

\* the date block of the hook, followed by the time block unless it throws
DateBlock(c) ==
    IF ~IsModified(c, "date") THEN TimeBlock(c)
    ELSE LET r == NormalizeDate(c.doc.date)
         IN IF r.ok THEN TimeBlock([c EXCEPT !.doc.date = r.value])
            ELSE [c EXCEPT !.err = Err(r.err, 0)]

\* a hook whose error is dropped: the write follows whatever the checks found
AfterSlugBlockThrowDropped(p, c) == Goto(p, "eventWrite", DateBlock(c))

\* the hook from `this.slug = slug` or from a skipped slug block to its end:
\* it either throws, which aborts the save, or returns, and the write follows
AfterSlugBlock(p, c) ==
    LET c2 == DateBlock(c)
    IN IF c2.err.kind = "none" THEN Goto(p, "eventWrite", c2) ELSE Finish(p, c2)

\* the hook from its entry to its first await
EnterEventHook(p, c) ==
    IF IsModified(c, "title")
    THEN LET baseSlug == BaseSlug(c.doc.title)
         IN Goto(p, "slugLookup",
                 [c EXCEPT !.loop = [baseSlug |-> baseSlug, slug |-> baseSlug,
                                     counter |-> 1, lookups |-> 0]])
    ELSE AfterSlugBlock(p, c)

\* save() of an Event: validation runs before the pre-save hook, and the hook
\* runs to its first await
EventHook(p) ==
    /\ pc[p] = "eventHook"
    /\ LET c == call[p]
       IN IF EventValid(c) THEN EnterEventHook(p, c)
          ELSE Finish(p, [c EXCEPT !.err = Err("ValidationError", 0)])
    /\ UNCHANGED <<events, nextEventId, bookings, nextBookingId>>

\* Event.create(fields) / new Event(fields).save()
EventCreateBegin(p, titles, dates, times, maxEvents) ==
    /\ Free(p)
    /\ nextEventId <= maxEvents
    /\ \E t \in titles, d \in dates, tm \in times :
         Goto(p, "eventHook",
            [IdleCall EXCEPT !.op = "eventCreate", !.id = nextEventId, !.isNew = TRUE,
                             !.doc = [title |-> TitleSetter(t), slug |-> <<>>,
                                      date |-> d, time |-> tm],
                             !.mod = {"title", "date", "time"}])
    /\ nextEventId' = nextEventId + 1
    /\ UNCHANGED <<events, bookings, nextBookingId>>

\* dirty tracking that marks every path, whether or not its value changed
ModifiedEveryPath(old, new) == {"title", "date", "time"}

\* the fields a caller assigned that differ from the loaded document
Modified(old, new) == {f \in {"title", "date", "time"} : old[f] # new[f]}

\* a loaded Event is assigned fields and saved: doc.save().  The document in
\* memory holds the assigned value of each modified path; an unmodified path
\* is neither read by the hook (each block is guarded by isModified) nor sent
\* by the save, and is left unset.
Unset == <<>>

EventSaveBegin(p, titles, dates, times) ==
    /\ Free(p)
    /\ \E e \in DOMAIN events :
       \E t \in {TitleSetter(x) : x \in titles} \cup {events[e].title},
          d \in dates \cup {events[e].date}, tm \in times \cup {events[e].time} :
         LET new == [events[e] EXCEPT !.title = t, !.date = d, !.time = tm]
             mod == Modified(events[e], new)
         IN Goto(p, "eventHook",
              [IdleCall EXCEPT !.op = "eventSave", !.id = e,
                               !.doc = [f \in DOMAIN new |-> IF f \in mod THEN new[f] ELSE Unset],
                               !.mod = mod])
    /\ UNCHANGED <<events, nextEventId, bookings, nextBookingId>>

\* one turn of the while (true) loop: the findOne, then either the next
\* candidate or the break, `this.slug = slug` and the rest of the hook
EventSlugLookup(p) ==
    /\ pc[p] = "slugLookup"
    /\ LET c == call[p]
           l == [c.loop EXCEPT !.lookups = @ + 1]
       IN IF FindOneBySlug(c.loop.slug, c.id)
          THEN Goto(p, "slugLookup",
                    [c EXCEPT !.loop = [l EXCEPT !.slug = Candidate(l.baseSlug, l.counter),
                                                 !.counter = @ + 1]])
          ELSE AfterSlugBlock(p, [c EXCEPT !.loop = l,
                                           !.doc.slug = SlugSetter(l.slug),
                                           !.mod = @ \cup {"slug"}])
    /\ UNCHANGED <<events, nextEventId, bookings, nextBookingId>>

\* the index without its unique option
NoSlugIndex(id, slug) == FALSE

\* EventSchema.index({ slug: 1 }, { unique: true }): whether storing slug in
\* document id would duplicate a key of the index
SlugIndexRejects(id, slug) ==
    \E e \in DOMAIN events : e # id /\ events[e].slug = slug

\* the fields of the stored document after $set of the modified paths
ApplyModified(old, c) == [f \in DOMAIN old |-> IF f \in c.mod THEN c.doc[f] ELSE old[f]]

\* the write that follows the hook: insertOne of a new document, or
\* updateOne({ _id }, { $set: modified paths }) of a loaded one
EventWrite(p) ==
    /\ pc[p] = "eventWrite"
    /\ LET c == call[p]
       IN IF c.isNew
          THEN IF SlugIndexRejects(c.id, c.doc.slug)
               THEN /\ Finish(p, [c EXCEPT !.err = Err("E11000", 0)])
                    /\ UNCHANGED events
               ELSE /\ events' = (c.id :> c.doc) @@ events
                    /\ Finish(p, c)
          ELSE IF c.id \notin DOMAIN events
               THEN /\ Finish(p, [c EXCEPT !.err = Err("DocumentNotFoundError", 0)])
                    /\ UNCHANGED events
               ELSE IF IsModified(c, "slug") /\ SlugIndexRejects(c.id, c.doc.slug)
                    THEN /\ Finish(p, [c EXCEPT !.err = Err("E11000", 0)])
                         /\ UNCHANGED events
                    ELSE /\ events' = [events EXCEPT ![c.id] = ApplyModified(@, c)]
                         /\ Finish(p, c)
    /\ UNCHANGED <<nextEventId, bookings, nextBookingId>>

\* Event.deleteOne({ _id: e })
EventDelete(e) ==
    /\ e \in DOMAIN events
    /\ events' = [x \in DOMAIN events \ {e} |-> events[x]]
    /\ UNCHANGED <<nextEventId, bookings, nextBookingId, pc, call>>
    /\ UNCHANGED connVars

\* Event.deleteOne({ _id: e }) by a caller between two of its saves
EventDeleteBy(p, e) == Free(p) /\ EventDelete(e)

(***************************************************************************)
(* Booking: schema setters and validation, the hooks, the unique index.    *)
(***************************************************************************)
\* schema setters of the email field: trim, lowercase
EmailSetter(s) == ToLowerCase(Trim(s))

\* match: /^[^\s@]+@[^\s@]+\.[^\s@]+$/
EmailRegex(s) ==
    /\ \A i \in DOMAIN s : ~IsSpace(s[i])
    /\ Cardinality({i \in DOMAIN s : s[i] = "@"}) = 1
    /\ LET at == CHOOSE i \in DOMAIN s : s[i] = "@"
       IN /\ at > 1
          /\ \E dot \in (at + 2)..(Len(s) - 1) : s[dot] = "."

\* required and match validators of the paths a save validates
BookingValid(c) == "email" \in c.mod => (c.doc.email # <<>> /\ EmailRegex(c.doc.email))

\* a lookup that finds a document whatever the id
FindByIdAny(id) == TRUE

\* Event.findById(id)
FindById(id) == id \in DOMAIN events

\* the compound index without its unique option
NonUniquePairIndex(id, doc) == FALSE

\* BookingSchema.index({ eventId: 1, email: 1 }, { unique: true }): whether
\* storing the pair in document id would duplicate a key of the index
PairIndexRejects(id, doc) ==
    \E b \in DOMAIN bookings :
        b # id /\ bookings[b].eventId = doc.eventId /\ bookings[b].email = doc.email

\* BookingSchema.pre("save") from its entry to its first await
EnterBookingHook(p, c) ==
    IF IsModified(c, "eventId") THEN Goto(p, "bookingLookup", c)
    ELSE Goto(p, "bookingWrite", c)

BookingValidateThenHook(p, c) ==
    IF BookingValid(c) THEN EnterBookingHook(p, c)
    ELSE Finish(p, [c EXCEPT !.err = Err("ValidationError", 0)])

\* Booking.create({ eventId, email }) / new Booking(fields).save()
BookingCreateBegin(p, eventIds, emails, maxBookings) ==
    /\ Free(p)
    /\ nextBookingId <= maxBookings
    /\ \E e \in eventIds, m \in emails :
         BookingValidateThenHook(p,
            [IdleCall EXCEPT !.op = "bookingCreate", !.id = nextBookingId, !.isNew = TRUE,
                             !.doc = [eventId |-> e, email |-> EmailSetter(m)],
                             !.mod = {"eventId", "email"}])
    /\ nextBookingId' = nextBookingId + 1
    /\ UNCHANGED <<events, nextEventId, bookings>>

\* a loaded Booking is assigned fields and saved: doc.save()
BookingSaveBegin(p, eventIds, emails) ==
    /\ Free(p)
    /\ \E b \in DOMAIN bookings :
       \E e \in eventIds \cup {bookings[b].eventId},
          m \in {EmailSetter(x) : x \in emails} \cup {bookings[b].email} :
         LET new == [eventId |-> e, email |-> m]
             mod == {f \in {"eventId", "email"} : bookings[b][f] # new[f]}
         IN BookingValidateThenHook(p,
              [IdleCall EXCEPT !.op = "bookingSave", !.id = b,
                               !.doc = [f \in mod |-> new[f]],
                               !.mod = mod])
    /\ UNCHANGED <<events, nextEventId, bookings, nextBookingId>>

\* the await of Event.findById(this.eventId) and the throw or return after it
BookingLookup(p) ==
    /\ pc[p] = "bookingLookup"
    /\ LET c == call[p]
       IN IF FindById(c.doc.eventId)
          THEN Goto(p, "bookingWrite", c)
          ELSE Finish(p, [c EXCEPT !.err = Err("EventNotFound", c.doc.eventId)])
    /\ UNCHANGED <<events, nextEventId, bookings, nextBookingId>>

\* the stored Booking after $set of the given paths
SetPaths(old, paths) == [f \in DOMAIN old |-> IF f \in DOMAIN paths THEN paths[f] ELSE old[f]]

\* the write that follows the hook: insertOne of a new document, or
\* updateOne({ _id }, { $set: modified paths }) of a loaded one
BookingWrite(p) ==
    /\ pc[p] = "bookingWrite"
    /\ LET c == call[p]
       IN IF c.isNew
          THEN IF PairIndexRejects(c.id, c.doc)
               THEN /\ Finish(p, [c EXCEPT !.err = Err("E11000", 0)])
                    /\ UNCHANGED bookings
               ELSE /\ bookings' = (c.id :> c.doc) @@ bookings
                    /\ Finish(p, c)
          ELSE IF c.id \notin DOMAIN bookings
               THEN /\ Finish(p, [c EXCEPT !.err = Err("DocumentNotFoundError", 0)])
                    /\ UNCHANGED bookings
               ELSE LET new == SetPaths(bookings[c.id], c.doc)
                    IN IF PairIndexRejects(c.id, new)
                       THEN /\ Finish(p, [c EXCEPT !.err = Err("E11000", 0)])
                            /\ UNCHANGED bookings
                       ELSE /\ bookings' = [bookings EXCEPT ![c.id] = new]
                            /\ Finish(p, c)
    /\ UNCHANGED <<events, nextEventId, nextBookingId>>

\* whether an update payload names a field, at its top level or under $set
Has(obj, f) == f \in DOMAIN obj

\* const newEventId = update?.eventId ?? update?.$set?.eventId;
NewEventIdOfFindOneAndUpdate(update) ==
    IF Has(update.top, "eventId") THEN [present |-> TRUE, value |-> update.top.eventId]
    ELSE IF Has(update.set, "eventId") THEN [present |-> TRUE, value |-> update.set.eventId]
    ELSE [present |-> FALSE, value |-> 0]

\* if (update && update.eventId)
NewEventIdOfUpdateOne(update) ==
    IF Has(update.top, "eventId") THEN [present |-> TRUE, value |-> update.top.eventId]
    ELSE [present |-> FALSE, value |-> 0]

NewEventId(op, update) ==
    IF op = "findOneAndUpdate" THEN NewEventIdOfFindOneAndUpdate(update)
    ELSE NewEventIdOfUpdateOne(update)

\* the option set by the findOneAndUpdate hook only
RunSettersOnFindOneAndUpdateOnly(op) == op = "findOneAndUpdate"

\* this.setOptions({ runSettersOnQuery: true }) of both query hooks
HookSetsRunSetters(op) == op \in {"findOneAndUpdate", "updateOne"}

\* Booking.findOneAndUpdate(filter, update, options) and
\* Booking.updateOne(filter, update, options): the pre hook to its first await
UpdateBegin(p, op, updates) ==
    /\ Free(p)
    /\ \E u \in updates :
         LET c == [IdleCall EXCEPT !.op = op,
                                   !.q = [NoQuery EXCEPT !.update = u,
                                                         !.runSettersOnQuery = HookSetsRunSetters(op)]]
         IN IF NewEventId(op, u).present
            THEN Goto(p, "updateLookup", c)
            ELSE Goto(p, "updateWrite", c)
    /\ UNCHANGED <<events, nextEventId, bookings, nextBookingId>>

\* the await of Event.findById(newEventId) and the throw or return after it
UpdateLookup(p) ==
    /\ pc[p] = "updateLookup"
    /\ LET c == call[p]
           newEventId == NewEventId(c.op, c.q.update).value
       IN IF FindById(newEventId)
          THEN Goto(p, "updateWrite", [c EXCEPT !.q.found = TRUE])
          ELSE Finish(p, [c EXCEPT !.err = Err("EventNotFound", newEventId)])
    /\ UNCHANGED <<events, nextEventId, bookings, nextBookingId>>

\* the update the driver is sent: top-level paths are merged into $set (a
\* top-level path wins), and the email is cast with the schema setters when
\* the query runs its setters
CastUpdate(q) ==
    LET merged == [f \in DOMAIN q.update.top \cup DOMAIN q.update.set |->
                      IF Has(q.update.top, f) THEN q.update.top[f] ELSE q.update.set[f]]
    IN [f \in DOMAIN merged |->
          IF f = "email" /\ q.runSettersOnQuery THEN EmailSetter(merged[f]) ELSE merged[f]]

\* update validators (runValidators: true) of the paths the update sets
UpdateValid(paths) == Has(paths, "email") => (paths.email # <<>> /\ EmailRegex(paths.email))

\* the first stored Booking the filter matches; the filter is by _id or by
\* email, and a filter on email is cast with the schema setters too
Matches(filter) ==
    {b \in DOMAIN bookings :
        \/ Has(filter, "_id") /\ b = filter._id
        \/ Has(filter, "email") /\ bookings[b].email = EmailSetter(filter.email)}

FirstMatch(filter) == CHOOSE b \in Matches(filter) : \A x \in Matches(filter) : b <= x

\* the update itself, after the hook returned.  The filter and the
\* runValidators option are read by this step only, and are drawn here.
UpdateWrite(p, filters) ==
    /\ pc[p] = "updateWrite"
    /\ \E filter \in filters, runValidators \in BOOLEAN :
         LET c == [call[p] EXCEPT !.q.filter = filter, !.q.runValidators = runValidators]
             paths == CastUpdate(c.q)
         IN IF runValidators /\ ~UpdateValid(paths)
            THEN /\ Finish(p, [c EXCEPT !.err = Err("ValidationError", 0)])
                 /\ UNCHANGED bookings
            ELSE IF Matches(filter) = {}
                 THEN /\ Finish(p, c)
                      /\ UNCHANGED bookings
                 ELSE LET b == FirstMatch(filter)
                          new == SetPaths(bookings[b], paths)
                      IN IF PairIndexRejects(b, new)
                         THEN /\ Finish(p, [c EXCEPT !.id = b, !.mod = DOMAIN paths,
                                                     !.err = Err("E11000", 0)])
                              /\ UNCHANGED bookings
                         ELSE /\ bookings' = [bookings EXCEPT ![b] = new]
                              /\ Finish(p, [c EXCEPT !.id = b, !.mod = DOMAIN paths])
    /\ UNCHANGED <<events, nextEventId, nextBookingId>>

(***************************************************************************)
(* Inputs of the Event specification.                                      *)
(***************************************************************************)
Titles == { <<"M","y"," ","E","v","!","!">>, <<"D","e","v">> }
Dates == { <<"2","0","2","5","-","0","1","-","0","1">> }
Times == { <<"9",":","0","5">> }

Next ==
    \/ \E p \in Procs : EventCreateBegin(p, Titles, Dates, Times, MaxEvents)
    \/ \E p \in Procs : EventSaveBegin(p, Titles, Dates, Times)
    \/ \E p \in Procs : EventHook(p)
    \/ \E p \in Procs : EventSlugLookup(p)
    \/ \E p \in Procs : EventWrite(p)
    \/ \E e \in DOMAIN events : EventDelete(e)

Spec == Init /\ [][Next]_vars

(***************************************************************************)
(* Inputs of the Booking specification.                                    *)
(***************************************************************************)
\* an ObjectId no Event was ever given: new mongoose.Types.ObjectId()
FakeId == 0

BookingTitles == { <<"D","e","v">> }
BookingEventIds == (1..MaxBookingEvents) \cup {FakeId}
Emails == { <<"T","@","X",".","c">>, <<" ","o","@","x",".","c"," ">> }

Updates ==
    {[top |-> [eventId |-> e], set |-> <<>>] : e \in BookingEventIds}
    \cup {[top |-> <<>>, set |-> [eventId |-> e]] : e \in BookingEventIds}
    \cup {[top |-> [email |-> m], set |-> <<>>] : m \in Emails}
    \cup {[top |-> <<>>, set |-> [email |-> m]] : m \in Emails}

Filters ==
    {[_id |-> b] : b \in 1..MaxBookings} \cup {[email |-> <<"T","@","X",".","c">>]}

NextBooking ==
    \/ \E p \in Procs : EventCreateBegin(p, BookingTitles, Dates, Times, MaxBookingEvents)
    \/ \E p \in Procs : EventHook(p)
    \/ \E p \in Procs : EventSlugLookup(p)
    \/ \E p \in Procs : EventWrite(p)
    \/ \E e \in DOMAIN events : EventDelete(e)
    \/ \E p \in Procs : BookingCreateBegin(p, BookingEventIds, Emails, MaxBookings)
    \/ \E p \in Procs : BookingSaveBegin(p, BookingEventIds, Emails)
    \/ \E p \in Procs : BookingLookup(p)
    \/ \E p \in Procs : BookingWrite(p)
    \/ \E p \in Procs : UpdateBegin(p, "findOneAndUpdate", Updates)
    \/ \E p \in Procs : UpdateBegin(p, "updateOne", Updates)
    \/ \E p \in Procs : UpdateLookup(p)
    \/ \E p \in Procs : UpdateWrite(p, Filters)

SpecBooking == Init /\ [][NextBooking]_vars

(***************************************************************************)
(* One caller saving Events one after another, with edits of every field.  *)
(***************************************************************************)
SeqDates == { <<"2","0","2","5","-","0","1","-","0","1">>,
              <<"2","0","2","5","-","0","2","-","3","0">> }
SeqTimes == { <<"9",":","0","5">>, <<"1","0",":","0","0">>, <<"2","4",":","0","0">> }

NextSeq ==
    \/ EventCreateBegin(1, Titles, SeqDates, SeqTimes, MaxSeqEvents)
    \/ EventSaveBegin(1, Titles, SeqDates, SeqTimes)
    \/ EventHook(1)
    \/ EventSlugLookup(1)
    \/ EventWrite(1)
    \/ \E e \in DOMAIN events : EventDeleteBy(1, e)

SpecSeq == Init /\ [][NextSeq]_vars

(***************************************************************************)
(* One caller creating and retitling Events, over a wider set of titles.   *)
(***************************************************************************)
SlugTitles ==
    { <<"M","y"," ","T","e","s","t"," ","E","v","e","n","t","!","!">>,
      <<"m","y"," "," ","t","e","s","t","-"," ","-","e","v","e","n","t">>,
      <<" ","D","e","v","_","1","\t","x"," ">>,
      <<"a"," ","-">>,
      <<"?","!">> }

NextSlug ==
    \/ EventCreateBegin(1, SlugTitles, Dates, Times, MaxSlugEvents)
    \/ EventSaveBegin(1, SlugTitles, Dates, Times)
    \/ EventHook(1)
    \/ EventSlugLookup(1)
    \/ EventWrite(1)
    \/ \E e \in DOMAIN events : EventDeleteBy(1, e)

SpecSlug == Init /\ [][NextSlug]_vars

\* the same, where a hook suspended at its findOne is resumed when the
\* lookup returns: weak fairness of EventSlugLookup(1), which is enabled
\* exactly when the caller is at its lookup, with that condition written out
SpecSlugLive ==
    SpecSlug /\ ([]<>(pc[1] # "slugLookup") \/ []<><<EventSlugLookup(1)>>_vars)

(***************************************************************************)
(* One caller saving an Event over a wider set of dates.                   *)
(***************************************************************************)
Years == { <<"0","0","5","0">>, <<"0","9","9","9">>, <<"2","0","2","4">>, <<"2","0","2","5">> }
Months == { <<"0","0">>, <<"0","2">>, <<"0","4">>, <<"1","3">> }
Days == { <<"0","0">>, <<"2","9">>, <<"3","0">>, <<"3","1">>, <<"3","2">> }

WideDates ==
    {y \o <<"-">> \o m \o <<"-">> \o d : y \in Years, m \in Months, d \in Days}
    \cup { <<"2","0","2","5","-","1","-","5">>,
           <<"2","0","2","5","/","0","1","/","0","5">>,
           <<"2","0","2","5","-","0","1","-","0","5","T","0","0",":","0","0">>,
           <<"0","5","-","0","1","-","2","0","2","5">> }

NextDate ==
    \/ EventCreateBegin(1, BookingTitles, WideDates, Times, MaxDateEvents)
    \/ EventSaveBegin(1, BookingTitles, WideDates, Times)
    \/ EventHook(1)
    \/ EventSlugLookup(1)
    \/ EventWrite(1)
    \/ \E e \in DOMAIN events : EventDeleteBy(1, e)

SpecDate == Init /\ [][NextDate]_vars

(***************************************************************************)
(* One caller saving an Event over a wider set of times.                   *)
(***************************************************************************)
WideTimes ==
    { <<"9",":","5">>, <<"0","9",":","0","5">>, <<"9",":","0","5">>,
      <<"2","4",":","0","0">>, <<"2","3",":","5","9">>, <<"1","9",":","6","0">>,
      <<"0",":","0","0">>, <<"1","2","3",":","0","0">>, <<"1","2","0","0">>,
      <<" ","9",":","0","5">>, <<"2","0",":","0","0">>, <<"1","2",":","3","0",":","0","0">> }

NextTime ==
    \/ EventCreateBegin(1, BookingTitles, Dates, WideTimes, MaxTimeEvents)
    \/ EventSaveBegin(1, BookingTitles, SeqDates, WideTimes)
    \/ EventHook(1)
    \/ EventSlugLookup(1)
    \/ EventWrite(1)
    \/ \E e \in DOMAIN events : EventDeleteBy(1, e)

SpecTime == Init /\ [][NextTime]_vars

(***************************************************************************)
(* connectDB and its cache.  cached is the pair { conn, promise } (the      *)
(* global or the module-level one, whichever the process uses).  attempts  *)
(* are the promises mongoose.connect(...).then(...) has returned, in the    *)
(* order they were started.  A caller that reaches the await while the     *)
(* promise is pending is resumed when the promise settles, together with   *)
(* the others that did; a caller that reaches the await after the promise  *)
(* settled (the memo still holds it until the first continuation has run)  *)
(* is resumed by a later job of its own, and other jobs, which may call    *)
(* connectDB, can run before it.                                           *)
(***************************************************************************)
\* the connection an attempt yields whichever attempt it is
ConnOfAttempt(k) == k

\* mongooseInstance.connection: the default connection of the mongoose
\* singleton, the same object whichever attempt yields it
ConnOf(k) == 1

InConnectDB(c) == conn[c].pc = "awaiting"

\* the callers that reached the await of attempt k while it was pending
EarlyWaiters(k) == {c \in Callers : InConnectDB(c) /\ conn[c].awaits = k /\ conn[c].early}

\* connectDB() from its entry to its await (or to its early return)
ConnectDBCall(c) ==
    /\ ~InConnectDB(c)
    /\ IF cached.conn # Null
       THEN /\ conn' = [conn EXCEPT ![c] = [IdleCaller EXCEPT !.pc = "returned",
                                                              !.result = cached.conn]]
            /\ UNCHANGED <<cached, attempts>>
       ELSE LET starts == cached.promise = Null
                k == IF starts THEN Len(attempts) + 1 ELSE cached.promise
            IN /\ starts => Len(attempts) < MaxAttempts
               /\ attempts' = IF starts THEN Append(attempts, "pending") ELSE attempts
               /\ cached' = [cached EXCEPT !.promise = k]
               /\ conn' = [conn EXCEPT ![c] = [IdleCaller EXCEPT !.pc = "awaiting",
                                                                 !.awaits = k,
                                                                 !.early = (attempts'[k] = "pending")]]
    /\ UNCHANGED dataVars

\* mongoose.connect resolves
ConnectSucceeds(k) ==
    /\ attempts[k] = "pending"
    /\ attempts' = [attempts EXCEPT ![k] = "resolved"]
    /\ UNCHANGED <<cached, conn>>
    /\ UNCHANGED dataVars

\* mongoose.connect rejects
ConnectFails(k) ==
    /\ attempts[k] = "pending"
    /\ attempts' = [attempts EXCEPT ![k] = "rejected"]
    /\ UNCHANGED <<cached, conn>>
    /\ UNCHANGED dataVars

\* connectDB after its await with a catch block that only rethrows
AfterAwaitMemoKept(k, cs) ==
    /\ cached' = IF attempts[k] = "resolved" THEN [cached EXCEPT !.conn = ConnOf(k)] ELSE cached
    /\ conn' = [c \in Callers |->
                  IF c \notin cs THEN conn[c]
                  ELSE IF attempts[k] = "resolved"
                       THEN [IdleCaller EXCEPT !.pc = "returned", !.awaits = k, !.result = ConnOf(k)]
                       ELSE [IdleCaller EXCEPT !.pc = "threw", !.awaits = k]]
    /\ UNCHANGED attempts
    /\ UNCHANGED dataVars

\* connectDB after its await, run by the callers in cs, all awaiting the
\* settled attempt k: cached.conn = conn and return, or the catch block
AfterAwait(k, cs) ==
    /\ IF attempts[k] = "resolved"
       THEN /\ cached' = [cached EXCEPT !.conn = ConnOf(k)]
            /\ conn' = [c \in Callers |->
                          IF c \in cs THEN [IdleCaller EXCEPT !.pc = "returned",
                                                              !.awaits = k,
                                                              !.result = ConnOf(k)]
                          ELSE conn[c]]
       ELSE /\ cached' = [cached EXCEPT !.promise = Null]
            /\ conn' = [c \in Callers |->
                          IF c \in cs THEN [IdleCaller EXCEPT !.pc = "threw", !.awaits = k]
                          ELSE conn[c]]
    /\ UNCHANGED attempts
    /\ UNCHANGED dataVars

\* the continuations of the callers that awaited attempt k while it was
\* pending: they were queued together when it settled and run one after
\* another with nothing in between
ResumeWaiters(k) ==
    /\ attempts[k] # "pending"
    /\ EarlyWaiters(k) # {}
    /\ AfterAwait(k, EarlyWaiters(k))

\* the continuation of a caller that reached the await after attempt k had
\* settled: it runs after those of the callers that awaited it before
ResumeLate(c) ==
    /\ InConnectDB(c)
    /\ ~conn[c].early
    /\ EarlyWaiters(conn[c].awaits) = {}
    /\ AfterAwait(conn[c].awaits, {c})

NextConn ==
    \/ \E c \in Callers : ConnectDBCall(c)
    \/ \E k \in DOMAIN attempts : ConnectSucceeds(k)
    \/ \E k \in DOMAIN attempts : ConnectFails(k)
    \/ \E k \in DOMAIN attempts : ResumeWaiters(k)
    \/ \E c \in Callers : ResumeLate(c)

SpecConn == Init /\ [][NextConn]_vars

(***************************************************************************)
(* Properties.                                                             *)
(***************************************************************************)
NoError(c) == c.err.kind = "none"

\* the hook of a save run by p returns or throws in this step
HookEnds(p) ==
    /\ pc[p] \in {"eventHook", "slugLookup"}
    /\ pc'[p] \in {"eventWrite", "done"}

SlugsUnique ==
    \A e1, e2 \in DOMAIN events : e1 # e2 => events[e1].slug # events[e2].slug

\* C1: under every interleaving of Event creations and title-changing saves,
\* no two stored Events have the same slug, and the slug the hook assigns at
\* the end of its loop is the slug of no other stored Event.
C1_SlugUnique ==
    [][/\ events' # events => SlugsUnique'
       /\ \A p \in Procs :
            (pc[p] = "slugLookup" /\ pc'[p] = "eventWrite") =>
               \A e \in DOMAIN events \ {call[p].id} :
                   events[e].slug # call'[p].doc.slug]_vars

C1_Witness ==
    \E p, q \in Procs :
        /\ pc[p] = "done" /\ call[p].op = "eventSave" /\ "title" \in call[p].mod
        /\ NoError(call[p])
        /\ pc[q] = "done" /\ call[q].err.kind = "E11000"
        /\ events # <<>>

\* the stored Booking a step of p writes, when it writes one
Written(p) ==
    {b \in DOMAIN bookings' : b \notin DOMAIN bookings \/ bookings'[b] # bookings[b]}

\* C2: whenever a Booking write commits (a creation, a whole-document save
\* that changes eventId, a findOneAndUpdate or an updateOne), the eventId of
\* the written Booking is the id of an Event stored at that moment.
C2_NoOrphanAtCommit ==
    [][\A p \in Procs :
          (pc[p] \in {"bookingWrite", "updateWrite"} /\ pc'[p] = "done") =>
             \A b \in Written(p) :
                 \/ call[p].op = "bookingSave" /\ "eventId" \notin call[p].mod
                 \/ bookings'[b].eventId \in DOMAIN events]_vars

\* the new eventId a filter-based update carries, at its top level or under $set
CandidateEventId(update) ==
    IF "eventId" \in DOMAIN update.top THEN <<update.top.eventId>>
    ELSE IF "eventId" \in DOMAIN update.set THEN <<update.set.eventId>>
    ELSE <<>>

\* C3: a findOneAndUpdate or updateOne whose payload carries, at its top level
\* or under $set, an eventId of no stored Event (and whose guard did not find
\* one) fails with the error of the create path and writes nothing.
C3_UpdateGuard ==
    [][\A p \in Procs :
          LET cand == CandidateEventId(call[p].q.update)
          IN (/\ pc[p] \in {"updateLookup", "updateWrite"}
              /\ pc'[p] # pc[p]
              /\ cand # <<>>
              /\ ~call[p].q.found
              /\ cand[1] \notin DOMAIN events) =>
                 /\ pc'[p] = "done"
                 /\ call'[p].err.kind = "EventNotFound"
                 /\ bookings' = bookings]_vars

\* C4: a Booking creation whose eventId is the id of no stored Event when the
\* hook looks it up fails with the event-not-found error carrying that id,
\* and the Booking collection is unchanged.
C4_CreateGuard ==
    [][\A p \in Procs :
          (/\ pc[p] = "bookingLookup"
           /\ call[p].op = "bookingCreate"
           /\ call[p].doc.eventId \notin DOMAIN events
           /\ pc'[p] # pc[p]) =>
              /\ pc'[p] = "done"
              /\ call'[p].err = [kind |-> "EventNotFound", id |-> call[p].doc.eventId]
              /\ bookings' = bookings]_vars

C4_Witness ==
    \E p \in Procs :
        /\ pc[p] = "done" /\ call[p].op = "bookingCreate"
        /\ call[p].err = [kind |-> "EventNotFound", id |-> FakeId]
        /\ bookings = <<>>
        /\ events # <<>>

IsTrimmedLowercase(s) ==
    /\ \A i \in DOMAIN s : s[i] \notin Range(UpperChars)
    /\ s # <<>> => (~IsSpace(s[1]) /\ ~IsSpace(s[Len(s)]))

\* C5: every stored Booking email is in trimmed, lowercased form, whatever
\* sequence of creations, whole-document saves, findOneAndUpdate and
\* updateOne calls wrote it.
C5_EmailNormalized ==
    \A b \in DOMAIN bookings : IsTrimmedLowercase(bookings[b].email)

C5_Witness ==
    \E p \in Procs, b \in DOMAIN bookings :
        /\ pc[p] = "done" /\ call[p].op = "updateOne" /\ NoError(call[p])
        /\ call[p].id = b /\ "email" \in call[p].mod
        /\ bookings[b].email = <<"t","@","x",".","c">>

SamePair(d1, d2) ==
    d1.eventId = d2.eventId /\ ToLowerCase(Trim(d1.email)) = ToLowerCase(Trim(d2.email))

PairsUnique ==
    \A b1, b2 \in DOMAIN bookings : b1 # b2 => ~SamePair(bookings[b1], bookings[b2])

WouldDuplicate(b, doc) == \E x \in DOMAIN bookings \ {b} : SamePair(bookings[x], doc)

\* the pair a filter-based update asks Booking b to hold
RequestedPair(b, update) ==
    LET field(f) == IF f \in DOMAIN update.top THEN update.top[f]
                    ELSE IF f \in DOMAIN update.set THEN update.set[f]
                    ELSE bookings[b][f]
    IN [eventId |-> field("eventId"), email |-> field("email")]

\* the pair a save asks the Booking it saves to hold
SavedPair(c) ==
    IF c.isNew THEN c.doc
    ELSE [f \in {"eventId", "email"} |-> IF f \in DOMAIN c.doc THEN c.doc[f] ELSE bookings[c.id][f]]

\* C6: no two stored Bookings hold the same (eventId, email) pair, emails
\* compared case-insensitively; a creation, save or filter-based update that
\* would make two hold the same pair fails with the duplicate-key error and
\* leaves the collection unchanged.
C6_PairUnique ==
    [][/\ bookings' # bookings => PairsUnique'
       /\ \A p \in Procs :
            /\ (/\ pc[p] = "bookingWrite" /\ pc'[p] = "done"
                /\ (call[p].isNew \/ call[p].id \in DOMAIN bookings)
                /\ WouldDuplicate(call[p].id, SavedPair(call[p]))) =>
                   (call'[p].err.kind = "E11000" /\ bookings' = bookings)
            /\ (/\ pc[p] = "updateWrite" /\ pc'[p] = "done"
                /\ call'[p].id \in DOMAIN bookings
                /\ WouldDuplicate(call'[p].id, RequestedPair(call'[p].id, call[p].q.update))) =>
                   (call'[p].err.kind = "E11000" /\ bookings' = bookings)]_vars

C6_Witness ==
    \E p, q \in Procs :
        /\ pc[p] = "done" /\ call[p].op = "bookingCreate" /\ call[p].err.kind = "E11000"
        /\ pc[q] = "done" /\ call[q].op = "bookingCreate" /\ NoError(call[q])
        /\ \E b \in DOMAIN bookings : bookings[b].email = <<"t","@","x",".","c">>
        /\ Cardinality(DOMAIN bookings) = 1

\* the title of the document p saves is the stored title
TitleNotModified(p) ==
    /\ call[p].id \in DOMAIN events
    /\ call[p].doc.title \in {Unset, events[call[p].id].title}

\* C7: a save of a stored Event whose title was not modified leaves the
\* stored slug as it was, whatever other paths it writes.
C7_SlugKept ==
    [][\A p \in Procs :
          (/\ pc[p] = "eventWrite" /\ pc'[p] = "done"
           /\ call[p].op = "eventSave"
           /\ TitleNotModified(p)) =>
              /\ call[p].id \in DOMAIN events'
              /\ events'[call[p].id].slug = events[call[p].id].slug]_vars

C7_Witness ==
    \E p \in Procs :
        /\ pc[p] = "done" /\ call[p].op = "eventSave" /\ NoError(call[p])
        /\ call[p].mod = {"time"}
        /\ call[p].id \in DOMAIN events
        /\ events[call[p].id].slug # BaseSlug(events[call[p].id].title)
        /\ \A e \in DOMAIN events : events[e].slug # BaseSlug(events[call[p].id].title)

\* the elements of s at the indices in keep, in order
Pick(s, keep) ==
    LET F[i \in 0..Len(s)] ==
          IF i = 0 THEN <<>> ELSE IF i \in keep THEN F[i - 1] \o <<s[i]>> ELSE F[i - 1]
    IN F[Len(s)]

\* the base slug of a title as the specification words it
BaseSlugOf(title) ==
    LET lower == [i \in DOMAIN title |-> LowerChar(title[i])]
        kept == Pick(lower, {i \in DOMAIN lower :
                               \/ lower[i] \in Range(LowerChars) \cup Range(DigitChars) \cup {"_", "-"}
                               \/ IsSpace(lower[i])})
        hyphened == Pick([i \in DOMAIN kept |-> IF IsSpace(kept[i]) THEN "-" ELSE kept[i]],
                         {i \in DOMAIN kept : ~(IsSpace(kept[i]) /\ i > 1 /\ IsSpace(kept[i - 1]))})
    IN Pick(hyphened, {i \in DOMAIN hyphened :
                          ~(hyphened[i] = "-" /\ i > 1 /\ hyphened[i - 1] = "-")})

\* base, base-1, base-2, ...
NthCandidate(base, n) == IF n = 0 THEN base ELSE base \o <<"-">> \o DecStr(n)

FirstFreeCandidate(base, taken) ==
    LET n == CHOOSE k \in 0..Cardinality(taken) :
                 /\ NthCandidate(base, k) \notin taken
                 /\ \A j \in 0..(k - 1) : NthCandidate(base, j) \in taken
    IN NthCandidate(base, n)

IsYMD(s) ==
    /\ Len(s) = 10
    /\ s[5] = "-" /\ s[8] = "-"
    /\ \A i \in (1..10) \ {5, 8} : s[i] \in Range(DigitChars)

\* C9: the date block returns every YYYY-MM-DD string it accepts as it is,
\* and accepts its own output again with the same result.
C9_DateIdempotent ==
    [][\A p \in Procs :
          (/\ HookEnds(p) /\ pc'[p] = "eventWrite"
           /\ "date" \in call[p].mod
           /\ IsYMD(call[p].doc.date)) =>
              /\ call'[p].doc.date = call[p].doc.date
              /\ NormalizeDate(call'[p].doc.date).ok
              /\ NormalizeDate(call'[p].doc.date).value = call'[p].doc.date]_vars

MonthLengths == <<31, 28, 31, 30, 31, 30, 31, 31, 30, 31, 30, 31>>

\* the year, month and day of a YYYY-MM-DD string name a calendar date
IsCalendarDate(s) ==
    LET y == ParseInt(SubSeq(s, 1, 4))
        m == ParseInt(SubSeq(s, 6, 7))
        d == ParseInt(SubSeq(s, 9, 10))
        leap == (y % 4 = 0 /\ y % 100 # 0) \/ y % 400 = 0
    IN /\ m \in 1..12
       /\ d >= 1
       /\ d <= (IF m = 2 /\ leap THEN 29 ELSE MonthLengths[m])

\* C10: a save that modified the date fails when the date is not of the form
\* YYYY-MM-DD, or is but names no calendar date, and then stores nothing.
C10_BadDateRejected ==
    [][\A p \in Procs :
          (/\ HookEnds(p)
           /\ "date" \in call[p].mod
           /\ (~IsYMD(call[p].doc.date) \/ ~IsCalendarDate(call[p].doc.date))) =>
              /\ pc'[p] = "done"
              /\ call'[p].err.kind \in
                    {"ValidationError",
                     IF IsYMD(call[p].doc.date) THEN "DateInvalid" ELSE "DateFormat"}
              /\ events' = events]_vars

C10_Witness ==
    \E p \in Procs, e \in DOMAIN events :
        /\ pc[p] = "done" /\ call[p].op = "eventSave" /\ call[p].id = e
        /\ call[p].mod = {"date"}
        /\ call[p].err.kind = "DateInvalid"

\* H:MM or HH:MM with hours 0 to 23 and minutes 00 to 59
IsHMM(s) ==
    /\ Len(s) \in {4, 5}
    /\ s[Len(s) - 2] = ":"
    /\ \A i \in (1..Len(s)) \ {Len(s) - 2} : s[i] \in Range(DigitChars)
    /\ ParseInt(SubSeq(s, 1, Len(s) - 3)) <= 23
    /\ ParseInt(SubSeq(s, Len(s) - 1, Len(s))) <= 59

\* the zero-padded HH:MM form of an H:MM or HH:MM string
PaddedHHMM(s) == IF Len(s) = 4 THEN <<"0">> \o s ELSE s

\* C11: a save that modified the time (and whose date check passed) goes on
\* to its write exactly when the time is H:MM or HH:MM with hours 0 to 23 and
\* minutes 00 to 59, the write stores the zero-padded HH:MM form of the
\* input, and for every other input the save fails and stores nothing.
C11_TimeNormalized ==
    [][\A p \in Procs :
          /\ (/\ HookEnds(p)
              /\ "time" \in call[p].mod
              /\ call'[p].err.kind \notin {"DateFormat", "DateInvalid"}) =>
                 IF IsHMM(call[p].doc.time)
                 THEN /\ pc'[p] = "eventWrite"
                      /\ call'[p].doc.time = PaddedHHMM(call[p].doc.time)
                 ELSE /\ pc'[p] = "done"
                      /\ call'[p].err.kind \in {"TimeFormat", "ValidationError"}
                      /\ events' = events
          /\ (/\ pc[p] = "eventWrite" /\ pc'[p] = "done"
              /\ "time" \in call[p].mod) =>
                 /\ NoError(call'[p])
                 /\ call[p].id \in DOMAIN events'
                 /\ events'[call[p].id].time = call[p].doc.time]_vars

C11_Witness ==
    \E p \in Procs, e \in DOMAIN events :
        /\ pc[p] = "done" /\ call[p].op = "eventSave" /\ call[p].id = e
        /\ call[p].mod = {"time"} /\ NoError(call[p])
        /\ events[e].time = <<"0","9",":","0","5">>

\* C12: a save of an Event that ends with an error stores nothing: no step of
\* the hook writes to the collection, and the step that ends the save with
\* an error (of the date or time check, also after the slug was regenerated
\* in the same run, or of the write itself) leaves every stored Event as it was.
C12_NoPartialCommit ==
    [][\A p \in Procs :
          /\ (pc[p] \in {"eventHook", "slugLookup"} /\ pc'[p] # pc[p]) => events' = events
          /\ (/\ pc[p] \in {"eventHook", "slugLookup", "eventWrite"}
              /\ pc'[p] = "done"
              /\ ~NoError(call'[p])) => events' = events]_vars

C12_Witness ==
    \E p \in Procs, e \in DOMAIN events :
        /\ pc[p] = "done" /\ call[p].op = "eventSave" /\ call[p].id = e
        /\ {"title", "slug", "time"} \subseteq call[p].mod
        /\ call[p].err.kind = "TimeFormat"
        /\ events[e].time # <<"2","4",":","0","0">>

\* the hook of p has returned with a regenerated slug and its write can be sent
WritesSlug(p) ==
    /\ pc[p] = "eventWrite"
    /\ "slug" \in call[p].mod
    /\ call[p].isNew \/ call[p].id \in DOMAIN events

SlugTaken(p) ==
    \E e \in DOMAIN events \ {call[p].id} : events[e].slug = call[p].doc.slug

\* the write of p finds its slug stored in another Event: it ends at once
\* with the duplicate-key error, stores nothing, and the hook is not run again
WriteRejected(p) ==
    /\ pc'[p] = "done"
    /\ call'[p].err.kind = "E11000"
    /\ events' = events

WriteStored(p) ==
    /\ pc'[p] = "done"
    /\ NoError(call'[p])
    /\ call[p].id \in DOMAIN events'
    /\ events'[call[p].id].slug = call[p].doc.slug

\* after the write of p, the write of q can only be rejected
Loses(q) ==
    \E e \in DOMAIN events' \ {call'[q].id} : events'[e].slug = call'[q].doc.slug

\* C13 as stated: of any two saves whose hooks returned with the same slug,
\* the write that comes first is stored and the other one is then rejected
\* by the unique index with the duplicate-key error.
C13_AsStated ==
    [][\A p \in Procs :
          (WritesSlug(p) /\ pc'[p] # pc[p]) =>
             IF SlugTaken(p) THEN WriteRejected(p)
             ELSE /\ WriteStored(p)
                  /\ \A q \in Procs \ {p} :
                        (WritesSlug(q) /\ call[q].doc.slug = call[p].doc.slug) => Loses(q)]_vars

\* C13: of two saves of two different Events whose hooks returned with the
\* same slug, the write that comes first is stored and the other one is then
\* rejected by the unique index with the duplicate-key error, which is none
\* of the hook's own errors; it stores nothing and the hook is not run again.
C13_SlugRace ==
    [][\A p \in Procs :
          (WritesSlug(p) /\ pc'[p] # pc[p]) =>
             IF SlugTaken(p) THEN WriteRejected(p)
             ELSE /\ WriteStored(p)
                  /\ \A q \in Procs \ {p} :
                        (/\ WritesSlug(q) /\ call[q].doc.slug = call[p].doc.slug
                         /\ call[q].id # call[p].id) => Loses(q)]_vars

C13_Witness ==
    \E p, q \in Procs :
        /\ pc[p] = "done" /\ call[p].op = "eventCreate" /\ call[p].err.kind = "E11000"
        /\ pc[q] = "done" /\ call[q].op = "eventCreate" /\ NoError(call[q])
        /\ Cardinality(DOMAIN events) = 1

\* the connection attempts in flight
Pending == {k \in DOMAIN attempts : attempts[k] = "pending"}

\* caller c calls connectDB in this step
Calls(c) == ~InConnectDB(c) /\ conn'[c] # conn[c]

\* C14: at most one connection attempt is in flight, and a call of connectDB
\* made while an attempt is pending starts no attempt and, if it awaits
\* one, awaits the pending one.
C14_OneAttemptInFlight ==
    [][/\ Cardinality(Pending') <= 1
       /\ \A c \in Callers :
            (Calls(c) /\ Pending # {}) =>
               /\ attempts' = attempts
               /\ conn'[c].pc = "awaiting" => conn'[c].awaits \in Pending]_vars

\* the failure of attempt k has been surfaced to a caller
FailureObserved(k) == attempts[k] = "rejected" /\ EarlyWaiters(k) = {}

\* C15: a caller resumed from the await of a failed attempt throws that
\* attempt's error and leaves the memoized promise cleared; a call made with
\* the memo cleared and no connection cached starts a fresh attempt; and no
\* call awaits an attempt whose failure has already been surfaced.
C15_FailureClearsMemo ==
    [][\A c \in Callers :
          /\ (/\ InConnectDB(c) /\ conn'[c].pc # "awaiting"
              /\ attempts[conn[c].awaits] = "rejected") =>
                 /\ conn'[c].pc = "threw"
                 /\ conn'[c].awaits = conn[c].awaits
                 /\ cached'.promise = Null
          /\ (Calls(c) /\ cached.conn = Null /\ cached.promise = Null) =>
                 /\ attempts' = Append(attempts, "pending")
                 /\ conn'[c].pc = "awaiting"
                 /\ conn'[c].awaits = Len(attempts')
          /\ (Calls(c) /\ conn'[c].pc = "awaiting" /\ conn'[c].awaits \in DOMAIN attempts) =>
                 ~FailureObserved(conn'[c].awaits)]_vars

C15_Witness ==
    \E c, d \in Callers :
        /\ conn[c].pc = "threw" /\ conn[c].awaits = 1
        /\ conn[d].pc = "threw" /\ conn[d].awaits = 1 /\ c # d
        /\ attempts = <<"rejected", "pending">>
        /\ cached.promise = 2
        /\ \E e \in Callers : conn[e].pc = "awaiting" /\ conn[e].awaits = 2

\* C19: once a connection is cached it is never cleared or replaced,
\* whatever runs later (a call, a continuation, the catch block of a caller
\* that awaited a failed attempt); every connectDB call that returns,
\* returns the cached connection; and a call made when a connection is
\* cached returns it at once and starts no attempt.
C19_ConnectionStable ==
    [][/\ cached.conn # Null => cached'.conn = cached.conn
       /\ \A c \in Callers :
            /\ (conn'[c].pc = "returned" /\ conn'[c] # conn[c]) =>
                   (conn'[c].result # Null /\ conn'[c].result = cached'.conn)
            /\ (Calls(c) /\ cached.conn # Null) =>
                   /\ conn'[c].pc = "returned"
                   /\ conn'[c].result = cached.conn
                   /\ attempts' = attempts]_vars

C19_Witness ==
    \E c, d \in Callers :
        /\ cached.conn # Null
        /\ conn[c].pc = "returned" /\ conn[c].awaits = Null /\ conn[c].result = cached.conn
        /\ conn[d].pc = "threw" /\ conn[d].awaits = 1
        /\ attempts = <<"rejected", "resolved">>

\* C16: the date of every stored Event, each written by a successful save
\* that modified the date, has four year digits, two month digits and two
\* day digits.
C16_StoredDateCanonical == \A e \in DOMAIN events : IsYMD(events[e].date)

\* C17: while no other operation changes the collection, a hook in its slug
\* loop has made at most as many lookups as there are stored Events, so the
\* loop ends with the lookup after that at the latest, and it does end.
C17_SlugLoopTerminates ==
    /\ [](\A p \in Procs :
            pc[p] = "slugLookup" => call[p].loop.lookups <= Cardinality(DOMAIN events))
    /\ \A p \in Procs : (pc[p] = "slugLookup") ~> (pc[p] # "slugLookup")

C17_Witness ==
    \E p \in Procs :
        /\ pc[p] = "eventWrite"
        /\ call[p].isNew
        /\ Cardinality(DOMAIN events) = 1
        /\ call[p].loop.lookups = Cardinality(DOMAIN events) + 1

\* non-empty, made of lowercase letters, digits, underscores and hyphens,
\* with no two hyphens in a row
IsUrlSafeSlug(s) ==
    /\ s # <<>>
    /\ \A i \in DOMAIN s : s[i] \in Range(LowerChars) \cup Range(DigitChars) \cup {"_", "-"}
    /\ \A i \in 1..(Len(s) - 1) : ~(s[i] = "-" /\ s[i + 1] = "-")

\* C18: the slug of every stored Event, each written by the hook, is
\* non-empty, made of lowercase letters, digits, underscores and hyphens
\* only, and has no run of two or more hyphens.
C18_SlugUrlSafe == \A e \in DOMAIN events : IsUrlSafeSlug(events[e].slug)

====
